---- MODULE Spec2Model ----
(***************************************************************************)
(* State-machine model of the site scripts src/static/js/script.js and     *)
(* src/script.js: the debounce helper and its two scroll listeners, the    *)
(* contact form submit handler, the counter animation and the page-load    *)
(* initialisation.                                                         *)
(***************************************************************************)
EXTENDS Integers, Sequences, FiniteSets, TLC

\* ------------------------------------------------------------------ bounds
MaxCalls == 3
MaxTarget == 3
MaxAnims == 2
MaxSends == 2
MaxFaults == 1
MaxHovers == 3
TicksPerHover == 3
TicksPerHide == 1
Scale == 256
\* ------------------------------------------------------- program constants
Delay == 50
BackToTopThreshold == 300
StickyThreshold == 100
Speed == 200
HideDelay == 5000
HoverDelay == 30
DesktopWidth == 992

Instances == {"backToTop", "stickyHeader"}
\* listeners are called in registration order: initBackToTop runs first
ScrollOrder == <<"backToTop", "stickyHeader">>
\* sampled scroll positions around the two thresholds
ScrollSamples == {0, 200, 400}

VARIABLES
    timers,       \* pending browser timers: records [id, kind, delay, remaining, args]
    nextId,       \* last timer id handed out by setTimeout
    timeoutId,    \* the closure variable timeoutId of each debounce instance (0 = undefined)
    listeners,    \* installed event listeners
    classes,      \* DOM class lists: set of <<element, class>>
    pageYOffset,  \* window.pageYOffset
    calls,        \* number of scroll events dispatched so far (the event is the argument)
    sinceLast,    \* ms since the last scroll event, saturating at Delay + 1
    allFast,      \* every scroll event came < Delay after the previous one
    allSlow,      \* every scroll event came > Delay after the previous one
    invoked       \* per instance: arguments of the invocations of func, in order

\* counter animation (initCounters / animateCounter)
VARIABLES
    dataCount,    \* the data-count attribute of the .counter element
    observed,     \* the IntersectionObserver still observes the counter
    anims,        \* animateCounter closures: records [target, increment, count, pending]
    innerText     \* counter.innerText

\* browser state shared by all handlers
bvars == <<timers, nextId, listeners, classes>>
\* state of the debounced scroll listeners
dvars == <<timeoutId, pageYOffset, calls, sinceLast, allFast, allSlow, invoked>>
cvars == <<dataCount, observed, anims, innerText>>
\* contact form (initContactForm)
VARIABLES
    required,     \* the form controls that carry the required attribute
    values,       \* value of every form control
    button,       \* the submit button: [innerHTML, disabled]
    response,     \* the formResponse element: [innerHTML, display]
    pending,      \* submit handlers suspended at await emailjs.send: [originalButtonText]
    sendCalls,    \* number of calls of emailjs.send
    shownBy       \* id of the auto-hide timer of the submission whose message was shown last (0 = none)

fvars == <<required, values, button, response, pending, sendCalls, shownBy>>
\* page load and the handlers of src/script.js
VARIABLES
    script,       \* the script the page includes
    globals,      \* third-party globals that are defined: AOS, emailjs, lightbox, bootstrap
    throwing,     \* defined libraries whose initialisation call throws
    present,      \* the elements the scripts look up that the page contains
    pc,           \* index in LoadSteps of the next statement of the script
    ran,          \* statements and initialisers that have been executed
    errors,       \* uncaught errors, by the statement or handler that raised them
    logged,       \* errors caught and passed to console.error
    modalDisplay  \* imageModal.style.display

pvars == <<script, globals, throwing, present, pc, ran, errors, logged, modalDisplay>>

\* hover dropdowns (initHoverDropdowns / handleDropdownHover)
VARIABLES
    innerWidth,   \* window.innerWidth
    hovers,       \* number of mouseenter and mouseleave events so far
    lastHover,    \* dropdown.matches(':hover') as sampled by the last handler run that sampled it
    popper        \* the menu carries data-bs-popper="static"

hvars == <<innerWidth, hovers, lastHover, popper>>
vars == <<bvars, dvars, cvars, fvars, pvars, hvars>>
\* what the scroll handlers and the counter handlers leave alone
notScroll == <<cvars, fvars, pvars, hvars>>
notCounter == <<bvars, dvars, fvars, pvars, hvars>>
notForm == <<dvars, cvars, hvars, script, globals, throwing, present, pc, ran, logged, modalDisplay>>
notPage == <<dvars, fvars, hvars, dataCount, anims, innerText>>
notHover == <<dvars, cvars, fvars, pvars>>

Min(a, b) == IF a < b THEN a ELSE b

\* ------------------------------------------------------------ browser timers
setTimeout(ts, id, kind, delay, args) ==
    ts \cup {[id |-> id, kind |-> kind, delay |-> delay, remaining |-> delay, args |-> args]}

clearTimeout(ts, id) == {t \in ts : t.id # id}

\* a timer runs when it is due; timers of equal delay run in creation order
Due(t) ==
    /\ t \in timers
    /\ t.remaining = 0
    /\ \A u \in timers : (u.remaining = 0 /\ u.delay = t.delay) => u.id >= t.id

AdvanceTimers(ts, q) == {[t EXCEPT !.remaining = t.remaining - q] : t \in ts}

\* toggle(cls, force) of classList
toggleClass(cs, el, cls, force) ==
    IF force THEN cs \cup {<<el, cls>>} ELSE cs \ {<<el, cls>>}

\* ------------------------------------------------------------------ debounce
\* one call of the function returned by debounce(func, delay);
\* s = [timers, timeoutId, nextId]
wrapped_sharedId(s, i, args) ==
    [timers    |-> setTimeout({t \in s.timers : \A j \in Instances : t.id # s.timeoutId[j]},
                              s.nextId + 1, i, Delay, args),
     timeoutId |-> [s.timeoutId EXCEPT ![i] = s.nextId + 1],
     nextId    |-> s.nextId + 1]

wrapped_noClear(s, i, args) ==
    [timers    |-> setTimeout(s.timers, s.nextId + 1, i, Delay, args),
     timeoutId |-> [s.timeoutId EXCEPT ![i] = s.nextId + 1],
     nextId    |-> s.nextId + 1]

wrapped_keepFirst(s, i, args) ==
    IF s.timeoutId[i] # 0 THEN s
    ELSE [timers    |-> setTimeout(s.timers, s.nextId + 1, i, Delay, args),
          timeoutId |-> [s.timeoutId EXCEPT ![i] = s.nextId + 1],
          nextId    |-> s.nextId + 1]

wrapped(s, i, args) ==
    [timers    |-> setTimeout(clearTimeout(s.timers, s.timeoutId[i]), s.nextId + 1, i, Delay, args),
     timeoutId |-> [s.timeoutId EXCEPT ![i] = s.nextId + 1],
     nextId    |-> s.nextId + 1]

RECURSIVE dispatchScroll(_, _, _)
dispatchScroll(s, k, args) ==
    IF k > Len(ScrollOrder) THEN s
    ELSE dispatchScroll(IF ScrollOrder[k] \in listeners THEN wrapped(s, ScrollOrder[k], args) ELSE s,
                        k + 1, args)

\* a scroll event to position y: every registered debounced listener is called
Scroll(y) ==
    /\ calls < MaxCalls
    /\ LET s == dispatchScroll([timers |-> timers, timeoutId |-> timeoutId, nextId |-> nextId],
                               1, calls + 1)
       IN /\ timers' = s.timers
          /\ timeoutId' = s.timeoutId
          /\ nextId' = s.nextId
    /\ pageYOffset' = y
    /\ calls' = calls + 1
    /\ allFast' = (allFast /\ (calls = 0 \/ sinceLast < Delay))
    /\ allSlow' = (allSlow /\ (calls = 0 \/ sinceLast > Delay))
    /\ sinceLast' = 0
    /\ UNCHANGED <<listeners, classes, invoked, notScroll>>

\* the timer callback of instance i: func.apply(this, args)
FireDebounce(i) ==
    \E t \in timers :
        /\ Due(t)
        /\ t.kind = i
        /\ timers' = timers \ {t}
        /\ invoked' = [invoked EXCEPT ![i] = Append(@, t.args)]
        /\ classes' = IF i = "backToTop"
                      THEN toggleClass(classes, "back-to-top", "show", pageYOffset > BackToTopThreshold)
                      ELSE toggleClass(classes, "header", "sticky", pageYOffset > StickyThreshold)
        /\ UNCHANGED <<nextId, timeoutId, listeners, pageYOffset, calls, sinceLast, allFast, allSlow, notScroll>>

\* one millisecond passes; a due timer runs before time moves on
Tick ==
    /\ \A t \in timers : t.remaining > 0
    /\ timers' = AdvanceTimers(timers, 1)
    /\ sinceLast' = Min(sinceLast + 1, Delay + 1)
    /\ UNCHANGED <<nextId, timeoutId, listeners, classes, pageYOffset, calls, allFast, allSlow, invoked, notScroll>>


\* ------------------------------------------------------------------ counters
\* Numbers of animateCounter are fixed-point with Scale units per 1: the
\* quotient target / speed is rounded to the nearest unit, as the floating
\* point division rounds to the nearest representable value.
Absent == <<"absent">>
\* values of number type: a finite integer or NaN
Num(n) == [kind |-> "num", v |-> n]
NaN == [kind |-> "nan", v |-> 0]
MarkupText == [kind |-> "markup", v |-> 0]
Digits == <<"0", "1", "2", "3", "4", "5", "6", "7", "8", "9">>
IsDigit(c) == \E d \in 1..10 : Digits[d] = c
DigitVal(c) == (CHOOSE d \in 1..10 : Digits[d] = c) - 1

RECURSIVE skipSpaces(_)
skipSpaces(str) ==
    IF str # <<>> /\ Head(str) = " " THEN skipSpaces(Tail(str)) ELSE str

RECURSIVE parseDigits(_, _)
parseDigits(str, acc) ==
    IF str # <<>> /\ IsDigit(Head(str))
    THEN parseDigits(Tail(str), 10 * acc + DigitVal(Head(str)))
    ELSE acc

\* parseInt(str): leading white space, an optional sign, then the longest
\* prefix of decimal digits; NaN when there is no digit
parseInt(str) ==
    LET t == skipSpaces(str)
        neg == t # <<>> /\ Head(t) = "-"
        u == IF t # <<>> /\ Head(t) \in {"-", "+"} THEN Tail(t) ELSE t
    IN IF u = <<>> \/ ~IsDigit(Head(u)) THEN NaN
       ELSE IF neg THEN Num(0 - parseDigits(u, 0)) ELSE Num(parseDigits(u, 0))

\* counter.getAttribute('data-count') || '0'
attrOrZero(a) == IF a = Absent \/ a = <<>> THEN <<"0">> ELSE a

\* target / speed, rounded to the nearest fixed-point unit (a NaN increment is
\* never added, since count < NaN is false: it is kept as 0)
divide(target, speed) ==
    IF target = NaN THEN 0 ELSE (2 * target.v * Scale + speed) \div (2 * speed)

\* count < target on fixed-point count and integer (or NaN) target
lessThan(count, target) == target # NaN /\ count < target.v * Scale

ceil(count) == (count + Scale - 1) \div Scale

\* one run of updateCount for closure a: the closure afterwards and the text written
updateCount_noClamp(a) ==
    IF lessThan(a.count, a.target)
    THEN [anim |-> [a EXCEPT !.count = a.count + a.increment], text |-> Num(ceil(a.count + a.increment))]
    ELSE [anim |-> [a EXCEPT !.pending = FALSE], text |-> Num(ceil(a.count))]

updateCount(a) ==
    IF lessThan(a.count, a.target)
    THEN [anim |-> [a EXCEPT !.count = a.count + a.increment], text |-> Num(ceil(a.count + a.increment))]
    ELSE [anim |-> [a EXCEPT !.pending = FALSE], text |-> a.target]

\* animateCounter(counter, target, speed): a new closure with a frame requested
animateCounter(target, speed) ==
    [target |-> target, increment |-> divide(target, speed), count |-> 0, pending |-> TRUE]

\* the IntersectionObserver callback for the counter's entry
Intersect ==
    /\ observed
    /\ Len(anims) < MaxAnims
    /\ \E isIntersecting \in BOOLEAN :
        IF isIntersecting
        THEN /\ anims' = Append(anims, animateCounter(parseInt(attrOrZero(dataCount)), Speed))
             /\ observed' = FALSE
             /\ UNCHANGED <<dataCount, innerText>>
        ELSE UNCHANGED cvars
    /\ UNCHANGED notCounter

RECURSIVE runFrame(_, _, _)
\* the callbacks requested for this animation frame run in request order
runFrame(as, k, text) ==
    IF k > Len(as) THEN [anims |-> as, text |-> text]
    ELSE IF as[k].pending
         THEN LET r == updateCount(as[k])
              IN runFrame([as EXCEPT ![k] = r.anim], k + 1, r.text)
         ELSE runFrame(as, k + 1, text)

\* an animation frame
Frame ==
    /\ \E k \in 1..Len(anims) : anims[k].pending
    /\ LET r == runFrame(anims, 1, innerText)
       IN /\ anims' = r.anims
          /\ innerText' = r.text
    /\ UNCHANGED <<dataCount, observed>>
    /\ UNCHANGED notCounter


\* ------------------------------------------------------------------ page load
Libraries == {"AOS", "emailjs", "lightbox", "bootstrap"}
Elements == {"contactForm", "submitButton", "name", "email", "phone", "inquiry", "message",
             "formResponse", "menuToggle", "navLinks", "imageModal", "modalImage",
             "close-modal", "back-to-top", "header", "navbar-toggler", "navbarNav",
             "dropdown", "dropdown-menu", "counter", "testimonialCarousel"}
Scripts == {"script.js", "static/js/script.js"}

\* the top-level statements of src/script.js, then the calls of the
\* DOMContentLoaded handler of src/static/js/script.js
LoadSteps ==
    <<"menuToggle", "anchors", "gallery", "closeModal", "windowClick", "demoForm", "scrollSpy",
      "AOS.init", "initEmailJS", "initContactForm", "initCounters", "initLightbox",
      "initSmoothScrolling", "initBackToTop", "initStickyHeader", "initMobileMenu",
      "initAnimations", "initTestimonialCarousel", "initHoverDropdowns">>
TopLevelSteps == 7
FirstStep(sc) == IF sc = "script.js" THEN 1 ELSE TopLevelSteps + 1
EndStep(sc) == IF sc = "script.js" THEN TopLevelSteps + 1 ELSE Len(LoadSteps) + 1
LibrarySteps == {"AOS.init", "initEmailJS", "initLightbox", "initTestimonialCarousel"}
ComponentSteps ==
    {"initContactForm", "initCounters", "initLightbox", "initSmoothScrolling", "initBackToTop",
     "initStickyHeader", "initMobileMenu", "initAnimations", "initTestimonialCarousel",
     "initHoverDropdowns"}

Works(lib) == lib \in globals /\ lib \notin throwing

\* the script or handler has run to its end
Loaded == pc = EndStep(script)

\* how a statement ends: "ok", "skipped" by its own guard, "caught" by its own
\* try/catch, or "throws" out of the script or handler
Outcome(step) ==
    CASE step = "menuToggle" -> IF "menuToggle" \in present THEN "ok" ELSE "throws"
      [] step = "closeModal" -> IF "close-modal" \in present THEN "ok" ELSE "throws"
      [] step = "demoForm" -> IF "contactForm" \in present THEN "ok" ELSE "skipped"
      [] step = "AOS.init" -> IF Works("AOS") THEN "ok" ELSE "throws"
      [] step = "initEmailJS" -> IF Works("emailjs") THEN "ok" ELSE "caught"
      [] step = "initContactForm" -> IF "contactForm" \in present THEN "ok" ELSE "skipped"
      [] step = "initCounters" -> IF "counter" \in present THEN "ok" ELSE "skipped"
      [] step = "initLightbox" -> IF "lightbox" \notin globals THEN "skipped"
                                  ELSE IF "lightbox" \in throwing THEN "throws" ELSE "ok"
      [] step = "initBackToTop" -> IF "back-to-top" \in present THEN "ok" ELSE "skipped"
      [] step = "initStickyHeader" -> IF "header" \in present THEN "ok" ELSE "skipped"
      [] step = "initMobileMenu" ->
            IF "navbar-toggler" \in present /\ "navbarNav" \in present THEN "ok" ELSE "skipped"
      [] step = "initTestimonialCarousel" ->
            IF "testimonialCarousel" \notin present \/ "bootstrap" \notin globals THEN "skipped"
            ELSE IF "bootstrap" \in throwing THEN "caught" ELSE "ok"
      [] step = "initHoverDropdowns" -> IF "dropdown" \in present THEN "ok" ELSE "skipped"
      [] OTHER -> "ok"

\* the listeners a statement installs when it completes
Installs(step) ==
    CASE step = "menuToggle" -> {"menuClick"}
      [] step = "anchors" -> {"anchorClick"}
      [] step = "gallery" -> {"galleryClick"}
      [] step = "closeModal" -> {"closeClick"}
      [] step = "windowClick" -> {"windowClick"}
      [] step = "demoForm" -> {"demoSubmit"}
      [] step = "scrollSpy" -> {"scrollSpy"}
      [] step = "initContactForm" -> {"submit"}
      [] step = "initSmoothScrolling" -> {"smoothScroll"}
      [] step = "initBackToTop" -> {"backToTop", "backToTopClick"}
      [] step = "initStickyHeader" -> {"stickyHeader"}
      [] step = "initMobileMenu" -> {"togglerClick", "outsideClick"}
      [] step = "initHoverDropdowns" -> {"hover"}
      [] OTHER -> {}

\* --------------------------------------------------------------- contact form
Fields == {"name", "email", "phone", "inquiry", "message"}
\* the control matched by input[type="email"]
EmailField == "email"
OriginalLabel == "Send Message"
LoadingLabel == "<i class=\"fas fa-spinner fa-spin me-2\"></i>Sending..."

\* sampled contents of a control; values are sequences of characters
TextSamples == {<<>>, <<" ">>, <<"a">>}
EmailSamples == {<<>>, <<"a", "@", "b">>, <<"a", "@", "b", ".", "c">>,
                 <<" ", "a", "@", "b", ".", "c">>}
\* sampled sets of controls marked required in the markup
RequiredSamples == {{"name", "message"}, Fields}
DefaultValues == [f \in Fields |-> <<>>]
\* sampled contents of the whole form: the empty form, and a filled-in form
\* with one control set to each of its samples
FilledValues == [f \in Fields |-> IF f = EmailField THEN <<"a", "@", "b", ".", "c">> ELSE <<"a">>]
FormSamples ==
    {DefaultValues} \cup {[FilledValues EXCEPT ![f] = v] : f \in Fields, v \in TextSamples \cup EmailSamples}

IsSpace(c) == c = " "

RECURSIVE trimStart(_)
trimStart(str) == IF str # <<>> /\ IsSpace(Head(str)) THEN trimStart(Tail(str)) ELSE str

RECURSIVE trimEnd(_)
trimEnd(str) ==
    IF str # <<>> /\ IsSpace(str[Len(str)]) THEN trimEnd(SubSeq(str, 1, Len(str) - 1)) ELSE str

\* String.prototype.trim
trim(str) == trimEnd(trimStart(str))

\* one or more characters of [^\s@]
plainRun(str) == str # <<>> /\ \A k \in 1..Len(str) : ~IsSpace(str[k]) /\ str[k] # "@"

\* /^[^\s@]+@[^\s@]+\.[^\s@]+$/.test(str)
emailPattern(str) ==
    \E i \in 1..Len(str) : \E j \in 1..Len(str) :
        /\ i < j
        /\ str[i] = "@"
        /\ str[j] = "."
        /\ plainRun(SubSeq(str, 1, i - 1))
        /\ plainRun(SubSeq(str, i + 1, j - 1))
        /\ plainRun(SubSeq(str, j + 1, Len(str)))

Invalid(fs) == {<<f, "is-invalid">> : f \in fs}

\* validateForm(form): the result and the class lists afterwards; the
\* selectors match only controls the page contains
validateForm_noTrim(vals, req, cs) ==
    LET requiredFields == req \cap present
        empty == {f \in requiredFields : vals[f] = <<>>}
        afterRequired == (cs \cup Invalid(empty)) \ Invalid(requiredFields \ empty)
        emailBad == /\ EmailField \in present
                    /\ trim(vals[EmailField]) # <<>>
                    /\ ~emailPattern(trim(vals[EmailField]))
    IN [isValid |-> empty = {} /\ ~emailBad,
        classes |-> IF emailBad THEN afterRequired \cup Invalid({EmailField}) ELSE afterRequired]

validateForm(vals, req, cs) ==
    LET requiredFields == req \cap present
        empty == {f \in requiredFields : trim(vals[f]) = <<>>}
        afterRequired == (cs \cup Invalid(empty)) \ Invalid(requiredFields \ empty)
        emailBad == /\ EmailField \in present
                    /\ trim(vals[EmailField]) # <<>>
                    /\ ~emailPattern(trim(vals[EmailField]))
    IN [isValid |-> empty = {} /\ ~emailBad,
        classes |-> IF emailBad THEN afterRequired \cup Invalid({EmailField}) ELSE afterRequired]

\* setButtonLoading(button, isLoading, originalText)
setButtonLoading(isLoading, originalText) ==
    IF isLoading THEN [innerHTML |-> LoadingLabel, disabled |-> TRUE]
    ELSE [innerHTML |-> originalText, disabled |-> FALSE]

\* showFormResponse(success, message) on the formResponse element resp
showFormResponse(resp, success) ==
    IF "formResponse" \notin present THEN resp
    ELSE [innerHTML |-> IF success THEN "alert-success" ELSE "alert-danger", display |-> "block"]

\* the user changes the contents of the controls; no handler listens to input
Edit(vals) ==
    /\ values # vals
    /\ values' = vals
    /\ UNCHANGED <<required, button, response, pending, sendCalls, shownBy, errors, bvars, notForm>>

\* the catch or success branch followed by the finally block of the submit handler
Finish(success, originalButtonText) ==
    /\ response' = showFormResponse(response, success)
    /\ button' = setButtonLoading(FALSE, originalButtonText)
    /\ IF "formResponse" \in present
       THEN /\ timers' = setTimeout(timers, nextId + 1, "hide", HideDelay, 0)
            /\ nextId' = nextId + 1
            /\ shownBy' = nextId + 1
       ELSE UNCHANGED <<timers, nextId, shownBy>>

\* the submit handler up to its await
Submit_loadingFirst ==
    /\ Loaded
    /\ "submit" \in listeners
    /\ LET v == validateForm(values, required, classes)
       IN /\ classes' = v.classes
          /\ IF ~v.isValid
             THEN /\ button' = setButtonLoading(TRUE, "")
                  /\ UNCHANGED <<response, pending, sendCalls, shownBy, errors, timers, nextId>>
             ELSE IF "submitButton" \notin present
             \* submitButton.innerHTML on null: the handler's promise rejects
             THEN /\ errors' = errors \cup {"submit"}
                  /\ UNCHANGED <<button, response, pending, sendCalls, shownBy, timers, nextId>>
             ELSE IF ~(Fields \subseteq present)
             \* getElementById(...).value on null, after the button was set loading
             THEN /\ button' = setButtonLoading(TRUE, "")
                  /\ errors' = errors \cup {"submit"}
                  /\ UNCHANGED <<response, pending, sendCalls, shownBy, timers, nextId>>
             ELSE IF "emailjs" \notin globals
             \* the reference to emailjs throws inside the try: catch and finally run at once
             THEN /\ nextId < MaxSends
                  /\ Finish(FALSE, button.innerHTML)
                  /\ UNCHANGED <<pending, sendCalls, errors>>
             ELSE /\ sendCalls < MaxSends
                  /\ pending' = Append(pending, [originalButtonText |-> button.innerHTML])
                  /\ button' = setButtonLoading(TRUE, "")
                  /\ sendCalls' = sendCalls + 1
                  /\ UNCHANGED <<response, shownBy, errors, timers, nextId>>
    /\ UNCHANGED <<required, values, listeners, notForm>>

Submit ==
    /\ Loaded
    /\ "submit" \in listeners
    /\ LET v == validateForm(values, required, classes)
       IN /\ classes' = v.classes
          /\ IF ~v.isValid
             THEN UNCHANGED <<button, response, pending, sendCalls, shownBy, errors, timers, nextId>>
             ELSE IF "submitButton" \notin present
             \* submitButton.innerHTML on null: the handler's promise rejects
             THEN /\ errors' = errors \cup {"submit"}
                  /\ UNCHANGED <<button, response, pending, sendCalls, shownBy, timers, nextId>>
             ELSE IF ~(Fields \subseteq present)
             \* getElementById(...).value on null, after the button was set loading
             THEN /\ button' = setButtonLoading(TRUE, "")
                  /\ errors' = errors \cup {"submit"}
                  /\ UNCHANGED <<response, pending, sendCalls, shownBy, timers, nextId>>
             ELSE IF "emailjs" \notin globals
             \* the reference to emailjs throws inside the try: catch and finally run at once
             THEN /\ nextId < MaxSends
                  /\ Finish(FALSE, button.innerHTML)
                  /\ UNCHANGED <<pending, sendCalls, errors>>
             ELSE /\ sendCalls < MaxSends
                  /\ pending' = Append(pending, [originalButtonText |-> button.innerHTML])
                  /\ button' = setButtonLoading(TRUE, "")
                  /\ sendCalls' = sendCalls + 1
                  /\ UNCHANGED <<response, shownBy, errors, timers, nextId>>
    /\ UNCHANGED <<required, values, listeners, notForm>>

RemoveAt(seq, k) == SubSeq(seq, 1, k - 1) \o SubSeq(seq, k + 1, Len(seq))

\* emailjs.send settles for the k-th suspended handler: the rest of the handler
Settle_retry(k, success) ==
    /\ k \in 1..Len(pending)
    /\ Finish(success, pending[k].originalButtonText)
    /\ values' = IF success THEN DefaultValues ELSE values
    /\ pending' = IF success \/ sendCalls >= MaxSends THEN RemoveAt(pending, k) ELSE pending
    /\ sendCalls' = IF success \/ sendCalls >= MaxSends THEN sendCalls ELSE sendCalls + 1
    /\ UNCHANGED <<required, errors, listeners, classes, notForm>>

Settle(k, success) ==
    /\ k \in 1..Len(pending)
    /\ Finish(success, pending[k].originalButtonText)
    /\ values' = IF success THEN DefaultValues ELSE values
    /\ pending' = RemoveAt(pending, k)
    /\ UNCHANGED <<required, sendCalls, errors, listeners, classes, notForm>>

\* the auto-hide timer callback
FireHide ==
    \E t \in timers :
        /\ Due(t)
        /\ t.kind = "hide"
        /\ timers' = timers \ {t}
        /\ response' = [response EXCEPT !.display = "none"]
        /\ UNCHANGED <<required, values, button, pending, sendCalls, shownBy, errors,
                       nextId, listeners, classes, notForm>>

\* time passes, up to the moment the next timer is due
TickForm ==
    /\ timers # {}
    /\ \A t \in timers : t.remaining > 0
    /\ LET next == CHOOSE r \in {t.remaining : t \in timers} : \A t \in timers : r <= t.remaining
       IN timers' = AdvanceTimers(timers, Min(HideDelay \div TicksPerHide, next))
    /\ UNCHANGED <<nextId, listeners, classes, fvars, errors, notForm>>

\* ---------------------------------------------------- page load and clicks
\* the next statement of the script runs; a throw ends the script or handler
Load ==
    /\ pc < EndStep(script)
    /\ LET step == LoadSteps[pc]
           o == Outcome(step)
       IN /\ ran' = ran \cup {step}
          /\ errors' = IF o = "throws" THEN errors \cup {step} ELSE errors
          /\ logged' = IF o = "caught" THEN logged \cup {step} ELSE logged
          /\ listeners' = IF o = "ok" THEN listeners \cup Installs(step) ELSE listeners
          /\ observed' = IF step = "initCounters" /\ o = "ok" THEN TRUE ELSE observed
          /\ pc' = IF o = "throws" THEN EndStep(script) ELSE pc + 1
    /\ UNCHANGED <<script, globals, throwing, present, modalDisplay, timers, nextId, classes, notPage>>

flipClass(cs, el, cls) == IF <<el, cls>> \in cs THEN cs \ {<<el, cls>>} ELSE cs \cup {<<el, cls>>}

\* src/script.js: click on the menu toggle
MenuClick ==
    /\ Loaded
    /\ "menuClick" \in listeners
    /\ IF "navLinks" \notin present
       THEN /\ errors' = errors \cup {"menuClick"}
            /\ UNCHANGED classes
       ELSE /\ classes' = flipClass(flipClass(classes, "navLinks", "show"), "bar", "animate")
            /\ UNCHANGED errors
    /\ UNCHANGED <<script, globals, throwing, present, pc, ran, logged, modalDisplay,
                   timers, nextId, listeners, observed, notPage>>

\* src/script.js: click on an anchor link whose target exists or not
AnchorClick(targetExists) ==
    /\ Loaded
    /\ "anchorClick" \in listeners
    /\ IF "navLinks" \notin present
       THEN /\ errors' = errors \cup {"anchorClick"}
            /\ UNCHANGED classes
       ELSE /\ classes' = IF targetExists
                          THEN (classes \ {<<"navLinks", "show">>}) \cup {<<"anchor", "active">>}
                          ELSE classes \ {<<"navLinks", "show">>}
            /\ UNCHANGED errors
    /\ UNCHANGED <<script, globals, throwing, present, pc, ran, logged, modalDisplay,
                   timers, nextId, listeners, observed, notPage>>

\* src/script.js: click on a gallery image
GalleryClick ==
    /\ Loaded
    /\ "galleryClick" \in listeners
    /\ IF "imageModal" \notin present
       THEN /\ errors' = errors \cup {"galleryClick"}
            /\ UNCHANGED modalDisplay
       ELSE /\ modalDisplay' = "flex"
            /\ errors' = IF "modalImage" \notin present THEN errors \cup {"galleryClick"} ELSE errors
    /\ UNCHANGED <<script, globals, throwing, present, pc, ran, logged,
                   bvars, observed, notPage>>

\* src/script.js: click on the close button, or on the modal backdrop
CloseClick(onButton) ==
    /\ Loaded
    /\ IF onButton THEN "closeClick" \in listeners
       ELSE "windowClick" \in listeners /\ "imageModal" \in present
    /\ IF "imageModal" \notin present
       THEN /\ errors' = errors \cup {"closeClick"}
            /\ UNCHANGED modalDisplay
       ELSE /\ modalDisplay' = "none"
            /\ UNCHANGED errors
    /\ UNCHANGED <<script, globals, throwing, present, pc, ran, logged,
                   bvars, observed, notPage>>

\* ----------------------------------------------------------- hover dropdowns
WidthSamples == {768, 992, 1200}

\* the deferred update of handleDropdownHover on the class lists
hoverUpdate_flip(cs, isHovered) ==
    flipClass(flipClass(cs, "dropdown-menu", "show"), "dropdown", "show")

hoverUpdate(cs, isHovered) ==
    toggleClass(toggleClass(cs, "dropdown-menu", "show", isHovered), "dropdown", "show", isHovered)

\* handleDropdownHover(e) for a mouseenter or mouseleave on the dropdown;
\* the timer carries the sampled hover state (1 = hovered)
Hover(isHovered) ==
    /\ Loaded
    /\ "hover" \in listeners
    /\ hovers < MaxHovers
    /\ hovers' = hovers + 1
    /\ IF innerWidth <= DesktopWidth \/ "dropdown-menu" \notin present
       THEN UNCHANGED <<timers, nextId, lastHover>>
       ELSE /\ lastHover' = IF isHovered THEN "hovered" ELSE "left"
            /\ timers' = setTimeout(timers, nextId + 1, "hover", HoverDelay, IF isHovered THEN 1 ELSE 0)
            /\ nextId' = nextId + 1
    /\ UNCHANGED <<innerWidth, popper, listeners, classes, notHover>>

\* the 30 ms timer callback
FireHover ==
    \E t \in timers :
        /\ Due(t)
        /\ t.kind = "hover"
        /\ timers' = timers \ {t}
        /\ classes' = hoverUpdate(classes, t.args = 1)
        /\ popper' = (popper \/ t.args = 1)
        /\ UNCHANGED <<innerWidth, hovers, lastHover, nextId, listeners, notHover>>

\* time passes, up to the moment the next timer is due
TickHover ==
    /\ timers # {}
    /\ \A t \in timers : t.remaining > 0
    /\ LET next == CHOOSE r \in {t.remaining : t \in timers} : \A t \in timers : r <= t.remaining
       IN timers' = AdvanceTimers(timers, Min(HoverDelay \div TicksPerHover, next))
    /\ UNCHANGED <<nextId, listeners, classes, hvars, notHover>>

\* -------------------------------------------------------- specifications
IdleCounter ==
    /\ dataCount = Absent
    /\ observed = FALSE
    /\ anims = <<>>
    /\ innerText = MarkupText

IdleDebounce ==
    /\ timeoutId = [i \in Instances |-> 0]
    /\ pageYOffset = 0
    /\ calls = 0
    /\ sinceLast = 0
    /\ allFast = TRUE
    /\ allSlow = TRUE
    /\ invoked = [i \in Instances |-> <<>>]

IdleHover ==
    /\ innerWidth = 1200
    /\ hovers = 0
    /\ lastHover = "none"
    /\ popper = FALSE

IdleBrowser ==
    /\ timers = {}
    /\ nextId = 0
    /\ listeners = {}
    /\ classes = {}

\* the page of src/static/js/script.js after a load without faults
LoadedPage ==
    /\ script = "static/js/script.js"
    /\ globals = Libraries
    /\ throwing = {}
    /\ present = Elements
    /\ pc = EndStep("static/js/script.js")
    /\ ran = {LoadSteps[k] : k \in FirstStep("static/js/script.js")..Len(LoadSteps)}
    /\ errors = {}
    /\ logged = {}
    /\ modalDisplay = ""

IdleForm ==
    /\ required = {}
    /\ values = DefaultValues
    /\ button = [innerHTML |-> OriginalLabel, disabled |-> FALSE]
    /\ response = [innerHTML |-> "", display |-> ""]
    /\ pending = <<>>
    /\ sendCalls = 0
    /\ shownBy = 0

DataCountSamples ==
    {Absent, <<>>, <<"x">>, <<"-", "1">>, <<" ", "2">>, <<"1", "x">>}
        \cup {<<Digits[d + 1]>> : d \in 0..MaxTarget}

InitCounter ==
    /\ IdleBrowser
    /\ IdleDebounce
    /\ dataCount \in DataCountSamples
    /\ observed = TRUE
    /\ anims = <<>>
    /\ innerText = MarkupText
    /\ IdleForm
    /\ IdleHover
    /\ LoadedPage

NextCounter ==
    \/ Intersect
    \/ Frame

SpecCounter == InitCounter /\ [][NextCounter]_vars /\ WF_vars(Frame)

Stopped == anims # <<>> /\ \A k \in 1..Len(anims) : ~anims[k].pending

\* C5: an animation toward target T eventually stops requesting frames, and
\* whenever it has stopped the counter shows exactly T, however T / speed rounds.
C5_CounterStopsAtTarget ==
    /\ [](anims # <<>> => <>Stopped)
    /\ [](Stopped => innerText = anims[Len(anims)].target)

\* the animation has stopped after the running count overshot the target
C5_Witness ==
    /\ Stopped
    /\ anims[1].target # NaN
    /\ anims[1].target.v >= 1
    /\ anims[1].count > anims[1].target.v * Scale
    /\ innerText = anims[1].target

InitForm ==
    /\ timers = {}
    /\ nextId = 0
    /\ listeners = {"submit"}
    /\ classes = {}
    /\ IdleDebounce
    /\ IdleCounter
    /\ IdleHover
    /\ LoadedPage
    /\ required \in RequiredSamples
    /\ values = DefaultValues
    /\ button = [innerHTML |-> OriginalLabel, disabled |-> FALSE]
    /\ response = [innerHTML |-> "", display |-> ""]
    /\ pending = <<>>
    /\ sendCalls = 0
    /\ shownBy = 0

NextForm ==
    \/ \E vals \in FormSamples : Edit(vals)
    \/ Submit
    \/ \E k \in 1..Len(pending) : \E success \in BOOLEAN : Settle(k, success)
    \/ FireHide
    \/ TickForm

SpecForm == InitForm /\ [][NextForm]_vars

Blank(str) == \A k \in 1..Len(str) : str[k] = " "

\* a control fails validation: required and blank, or a non-blank e-mail
\* address that does not match the pattern
Fails(f) ==
    \/ f \in required /\ Blank(values[f])
    \/ f = EmailField /\ ~Blank(values[f]) /\ ~emailPattern(trim(values[f]))

ValidSubmit == Submit /\ validateForm(values, required, classes).isValid

\* C4: no step taken while a required control is empty or holds only white
\* space calls emailjs.send, whatever the other controls hold.
C4_BlankRequiredNeverSends ==
    [][(\E f \in required : Blank(values[f])) => sendCalls' = sendCalls]_vars

\* a submit was rejected for a white-space-only name, all else being filled in
C4_Witness ==
    /\ "name" \in required
    /\ values["name"] = <<" ">>
    /\ \A f \in Fields \ {"name"} : ~Fails(f) /\ ~Blank(values[f])
    /\ classes = {<<"name", "is-invalid">>}
    /\ sendCalls = 0

\* C8: a valid submit calls emailjs.send exactly once; when the send settles
\* nothing is sent again, a failure shows alert-danger and leaves the form
\* contents alone, a success shows alert-success and resets the form.
C8_SendOnceNoRetry ==
    [][/\ ValidSubmit => (sendCalls' = sendCalls + 1 /\ Len(pending') = Len(pending) + 1)
       /\ sendCalls' # sendCalls => ValidSubmit
       /\ (\E k \in 1..Len(pending) : Settle(k, FALSE)) =>
              /\ response' = [innerHTML |-> "alert-danger", display |-> "block"]
              /\ values' = values
       /\ (\E k \in 1..Len(pending) : Settle(k, TRUE)) =>
              /\ response' = [innerHTML |-> "alert-success", display |-> "block"]
              /\ values' = DefaultValues
       /\ Len(pending') < Len(pending) =>
              /\ Len(pending') = Len(pending) - 1
              /\ sendCalls' = sendCalls
              /\ response'.display = "block"
              /\ response'.innerHTML \in {"alert-success", "alert-danger"}
      ]_vars

\* a send has failed: the failure message is on display over an unreset form
C8_Witness ==
    /\ sendCalls >= 1
    /\ pending = <<>>
    /\ response = [innerHTML |-> "alert-danger", display |-> "block"]
    /\ values # DefaultValues

\* C9 (as stated): after validateForm every validated control carries
\* is-invalid exactly when it failed a check in that call.
C9_InvalidIffFailed ==
    [][Submit => \A f \in required \cup {EmailField} :
                     (<<f, "is-invalid">> \in classes') <=> Fails(f)]_vars

\* C10 (as stated): the button is disabled with the loading label while a send
\* is pending, and enabled with its original label once none is.
C10_ButtonFollowsPending ==
    /\ pending # <<>> => button = [innerHTML |-> LoadingLabel, disabled |-> TRUE]
    /\ pending = <<>> => button = [innerHTML |-> OriginalLabel, disabled |-> FALSE]

\* C11: a submit rejected by validateForm changes nothing but the is-invalid
\* classes: the button, formResponse, the control values, the pending sends
\* and the pending timers stay as they were.
C11_RejectedSubmitFrame ==
    [][(Submit /\ ~validateForm(values, required, classes).isValid) =>
           /\ button' = button
           /\ response' = response
           /\ values' = values
           /\ timers' = timers
           /\ pending' = pending
           /\ sendCalls' = sendCalls
           /\ classes' \ Invalid(Fields) = classes \ Invalid(Fields)
      ]_vars

\* a submit was rejected while a send was pending, a message on display and
\* its auto-hide timer running
C11_Witness ==
    /\ <<"name", "is-invalid">> \in classes
    /\ Blank(values["name"])
    /\ pending # <<>>
    /\ timers # {}
    /\ response.display = "block"

\* C12 (as stated): the message shown by a submission stays on display until
\* the auto-hide timer of that same submission has run its 5000 ms.
C12_MessageOutlivesOlderTimers ==
    (\E t \in timers : t.id = shownBy /\ t.remaining > 0) => response.display = "block"

\* a fault: an element the page lacks, a global that is not defined, or a
\* library whose initialisation throws
FaultKinds ==
    {<<"absent", e>> : e \in Elements} \cup {<<"undefined", l>> : l \in Libraries}
        \cup {<<"throws", l>> : l \in Libraries}

RECURSIVE SubsetsUpTo(_, _)
SubsetsUpTo(S, n) ==
    IF n = 0 THEN {{}}
    ELSE LET smaller == SubsetsUpTo(S, n - 1)
         IN smaller \cup {T \cup {x} : T \in smaller, x \in S}

InitPage ==
    /\ IdleBrowser
    /\ IdleDebounce
    /\ IdleCounter
    /\ IdleForm
    /\ IdleHover
    /\ script \in Scripts
    /\ \E F \in SubsetsUpTo(FaultKinds, MaxFaults) :
        /\ present = {e \in Elements : <<"absent", e>> \notin F}
        /\ globals = {l \in Libraries : <<"undefined", l>> \notin F}
        /\ throwing = {l \in Libraries : <<"throws", l>> \in F /\ <<"undefined", l>> \notin F}
    /\ pc = FirstStep(script)
    /\ ran = {}
    /\ errors = {}
    /\ logged = {}
    /\ modalDisplay = ""

NextPage ==
    \/ Load
    \/ MenuClick
    \/ \E targetExists \in BOOLEAN : AnchorClick(targetExists)
    \/ GalleryClick
    \/ \E onButton \in BOOLEAN : CloseClick(onButton)
    \/ Submit
    \/ \E k \in 1..Len(pending) : \E success \in BOOLEAN : Settle(k, success)
    \/ FireHide
    \/ TickForm

SpecPage == InitPage /\ [][NextPage]_vars

\* C6 (as stated): a failing library initialisation in the DOMContentLoaded
\* handler is swallowed, and every component initialiser of the handler runs.
C6_LibraryFailureNotFatal ==
    (script = "static/js/script.js" /\ Loaded) =>
        /\ ComponentSteps \subseteq ran
        /\ errors \cap LibrarySteps = {}

\* C7 (as stated): with any elements missing no statement or handler raises
\* an error, and a feature whose elements are present is installed.
C7_MissingElementsSkipped ==
    /\ errors \subseteq LibrarySteps
    /\ (script = "script.js" /\ Loaded /\ "contactForm" \in present) => "demoSubmit" \in listeners

InitDebounce ==
    /\ timers = {}
    /\ nextId = 0
    /\ timeoutId = [i \in Instances |-> 0]
    /\ listeners \in (SUBSET Instances) \ {{}}
    /\ classes = {}
    /\ pageYOffset = 0
    /\ calls = 0
    /\ sinceLast = 0
    /\ allFast = TRUE
    /\ allSlow = TRUE
    /\ invoked = [i \in Instances |-> <<>>]
    /\ IdleCounter
    /\ IdleForm
    /\ IdleHover
    /\ LoadedPage

NextDebounce ==
    \/ \E y \in ScrollSamples : Scroll(y)
    \/ \E i \in Instances : FireDebounce(i)
    \/ Tick

SpecDebounce == InitDebounce /\ [][NextDebounce]_vars

PendingOf(i) == {t \in timers : t.kind = i}

\* C1: a burst of calls, each less than Delay after the previous one, invokes
\* func exactly once, with the arguments of the last call, and not before
\* Delay has elapsed since that last call.
C1_BurstInvokesLastOnce ==
    \A i \in listeners :
        (calls >= 1 /\ allFast) =>
            /\ sinceLast < Delay => invoked[i] = <<>>
            /\ sinceLast > Delay => invoked[i] = <<calls>>
            /\ Len(invoked[i]) <= 1
            /\ Len(invoked[i]) = 1 => (invoked[i][1] = calls /\ PendingOf(i) = {})

C1_Witness ==
    \E i \in listeners : calls >= 2 /\ allFast /\ invoked[i] = <<calls>>

\* C2: when every call comes more than Delay after the previous one, each call
\* produces its own invocation with its own arguments, in call order.
C2_SpacedCallsEachInvoke ==
    \A i \in listeners :
        allSlow =>
            LET n == calls - Cardinality(PendingOf(i))
            IN /\ Cardinality(PendingOf(i)) <= 1
               /\ invoked[i] = [k \in 1..n |-> k]
               /\ (calls >= 1 /\ sinceLast > Delay) => n = calls

C2_Witness ==
    \E i \in listeners : calls >= 2 /\ allSlow /\ invoked[i] = [k \in 1..calls |-> k]

\* C3 (as stated): every debounce instance has exactly one timer outstanding
\* in every reachable state.
C3_ExactlyOneTimer ==
    \A i \in listeners : Cardinality(PendingOf(i)) = 1

\* C3 (amended): every debounce instance has at most one timer outstanding;
\* it has none before its first call and after its timer has run.
C3_AtMostOneTimer ==
    \A i \in Instances :
        /\ Cardinality(PendingOf(i)) <= 1
        /\ (i \in listeners /\ calls >= 1 /\ sinceLast < Delay) => Cardinality(PendingOf(i)) = 1
        /\ (calls = 0 \/ sinceLast > Delay \/ i \notin listeners) => PendingOf(i) = {}

C3_Witness ==
    \E i \in listeners : calls >= 2 /\ sinceLast < Delay /\ Cardinality(PendingOf(i)) = 1

\* C13: the two debounced scroll listeners are independent: while a burst of
\* scroll events is under way each holds its own pending timer, and once the
\* page has been quiet for the delay both callbacks have run exactly once,
\* with the last event.
C13_InstancesIndependent ==
    (listeners = Instances /\ calls >= 1 /\ allFast) =>
        /\ sinceLast < Delay =>
              /\ \A i \in Instances : \E t \in timers : t.kind = i /\ t.id = timeoutId[i]
              /\ timeoutId["backToTop"] # timeoutId["stickyHeader"]
        /\ sinceLast > Delay =>
              /\ invoked["backToTop"] = <<calls>>
              /\ invoked["stickyHeader"] = <<calls>>
              /\ timers = {}

C13_Witness ==
    /\ listeners = Instances
    /\ calls >= 2
    /\ allFast
    /\ sinceLast > Delay
    /\ invoked["backToTop"] = <<calls>>
    /\ invoked["stickyHeader"] = <<calls>>

InitHover ==
    /\ timers = {}
    /\ nextId = 0
    /\ listeners = {"hover"}
    /\ classes = {}
    /\ IdleDebounce
    /\ IdleCounter
    /\ IdleForm
    /\ script = "static/js/script.js"
    /\ globals = Libraries
    /\ throwing = {}
    /\ present \in {Elements, Elements \ {"dropdown-menu"}}
    /\ pc = EndStep("static/js/script.js")
    /\ ran = {LoadSteps[k] : k \in FirstStep("static/js/script.js")..Len(LoadSteps)}
    /\ errors = {}
    /\ logged = {}
    /\ modalDisplay = ""
    /\ innerWidth \in WidthSamples
    /\ hovers = 0
    /\ lastHover = "none"
    /\ popper = FALSE

NextHover ==
    \/ \E isHovered \in BOOLEAN : Hover(isHovered)
    \/ FireHover
    \/ TickHover

SpecHover == InitHover /\ [][NextHover]_vars

\* C14: on a viewport wider than 992, once every deferred update has run the
\* dropdown and its menu carry show exactly when the last event sampled the
\* dropdown as hovered; on a viewport of at most 992 the handler changes no
\* class and schedules no timer.
C14_HoverShowsLastSample ==
    /\ (innerWidth > DesktopWidth /\ lastHover # "none" /\ timers = {}) =>
          /\ <<"dropdown", "show">> \in classes <=> lastHover = "hovered"
          /\ <<"dropdown-menu", "show">> \in classes <=> lastHover = "hovered"
    /\ innerWidth <= DesktopWidth => (classes = {} /\ timers = {} /\ nextId = 0)

\* three events, the last one sampling the dropdown as left after it had been shown
C14_Witness ==
    /\ innerWidth > DesktopWidth
    /\ hovers >= 3
    /\ timers = {}
    /\ lastHover = "left"
    /\ popper
    /\ <<"dropdown", "show">> \notin classes

\* C15 (as stated): while a counter animates toward a positive target the
\* number it shows never decreases and never exceeds the target, and no
\* second animation is started on the element.
C15_DisplayMonotoneBelowTarget ==
    [][(anims' # <<>> /\ anims'[1].target # NaN /\ anims'[1].target.v > 0
          /\ innerText'.kind = "num") =>
           /\ innerText'.v <= anims'[1].target.v
           /\ innerText.kind = "num" => innerText'.v >= innerText.v
           /\ Len(anims') <= 1
      ]_vars

\* C16 (as stated): on a page that has all its elements, the hamburger bars
\* carry animate exactly when the navigation list carries show.
C16_BarsFollowMenu ==
    present = Elements =>
        (<<"bar", "animate">> \in classes <=> <<"navLinks", "show">> \in classes)

====
